---- MODULE Spec2Model ----
(***************************************************************************)
(* The TinySoundFont MIDI driver of RetroArch (midi/drivers/tsf_midi.c):   *)
(* a control thread that initialises the driver, writes MIDI events to it  *)
(* and frees it, and an audio thread on which the mixer pulls the render   *)
(* callback tsf_synth.  Both threads call into one synth engine instance   *)
(* under the handle's synth_lock.                                          *)
(***************************************************************************)
EXTENDS Integers, Sequences, FiniteSets, TLC

\* ------------------------------------------------------------------ bounds

\* How many times the host initialises the driver in one run.
MaxInits == 2
\* How many times the host may pass one handle to tsf_midi_free.
MaxFreeCalls == 2

\* --------------------------------------------------------------- constants

NULL == 0

TSF_MIDI_NOTE_OFF == 128
TSF_MIDI_NOTE_ON == 144
TSF_MIDI_KEY_PRESSURE == 160
TSF_MIDI_CONTROL_CHANGE == 176
TSF_MIDI_PROGRAM_CHANGE == 192
TSF_MIDI_CHANNEL_PRESSURE == 208
TSF_MIDI_PITCH_BEND == 224
TSF_MIDI_SYSEX == 240

\* The build has threads: the handle carries a synth_lock and the two lock
\* macros are slock_lock / slock_unlock.
HAVE_THREADS == TRUE

\* ------------------------------------------------------------ C arithmetic

RECURSIVE BitAnd(_, _)
BitAnd(a, b) ==
    IF a = 0 \/ b = 0 THEN 0
    ELSE (IF a % 2 = 1 /\ b % 2 = 1 THEN 1 ELSE 0) + 2 * BitAnd(a \div 2, b \div 2)

RECURSIVE BitOr(_, _)
BitOr(a, b) ==
    IF a = 0 THEN b
    ELSE IF b = 0 THEN a
    ELSE (IF a % 2 = 1 \/ b % 2 = 1 THEN 1 ELSE 0) + 2 * BitOr(a \div 2, b \div 2)

Shl(a, n) == a * (2 ^ n)

\* ------------------------------------------------------------------ events

\* A midi_event_t: data_size bytes, data[0] .. data[data_size - 1].
Byte(event, i) == event.data[i + 1]

MkEvent(bytes) == [data_size |-> Len(bytes), data |-> bytes]

\* The "\x7F\x7F\x04\x01" of the master-volume system exclusive message.
VolumeSignature == <<127, 127, 4, 1>>

\* memcmp(event->data + 1, "\x7F\x7F\x04\x01", 4) == 0
SignatureMatches(event) ==
    \A i \in 0..3 : Byte(event, 1 + i) = VolumeSignature[i + 1]

\* Status bytes: every high nibble, on the first and on the tenth channel.
ModelChannels == {0, 9}
StatusBytes == {16 * hi + ch : hi \in 0..15, ch \in ModelChannels}
\* Data bytes: zero, the 7-bit maximum, and a byte with the top bit set.
DataBytes == {0, 127, 193}

\* Bytes 1..4 of the 8-byte system exclusive messages: the signature and the
\* signature with one byte changed.
SignatureVariants ==
    {VolumeSignature, <<126, 127, 4, 1>>, <<127, 0, 4, 1>>,
     <<127, 127, 5, 1>>, <<127, 127, 4, 2>>}

ShortEvents == {MkEvent(<<>>)} \cup {MkEvent(<<s>>) : s \in StatusBytes}
\* Two-byte events on every status byte; three-byte events on the status bytes
\* proper, those with the top bit set.
ChannelEvents ==
    {MkEvent(<<s, d1>>) : s \in StatusBytes, d1 \in DataBytes}
    \cup {MkEvent(<<s, d1, d2>>) :
             s \in {b \in StatusBytes : b >= 128}, d1 \in DataBytes, d2 \in DataBytes}
SysexEvents ==
    {MkEvent(<<240>> \o sig \o <<b5, b6, 247>>) :
        sig \in SignatureVariants, b5 \in DataBytes, b6 \in DataBytes}
    \cup {MkEvent(<<240>> \o VolumeSignature \o <<127, 247>>),
          MkEvent(<<240>> \o VolumeSignature \o <<127, 127, 0, 247>>)}

Events == ShortEvents \cup ChannelEvents \cup SysexEvents

\* ------------------------------------------------- tsf_midi_write's decoding

\* The length check with the bound one too low: a lone status byte passes.
TooShort_Empty(event) == event.data_size < 1

TooShort(event) == event.data_size < 2

channel(event) == BitAnd(Byte(event, 0), 15)
p1(event) == BitAnd(Byte(event, 1), 127)
p2(event) == IF event.data_size >= 3 THEN BitAnd(Byte(event, 2), 127) ELSE 0

StatusKind(event) == BitAnd(Byte(event, 0), 240)

\* One call into the synth engine: its name and its arguments after the
\* instance.  A velocity or a volume is kept as the numerator of the float the
\* code computes (p2 of p2 / 127.0f, n of n / 16383.0f).
Call(fn, ch, a, b) == [fn |-> fn, channel |-> ch, a |-> a, b |-> b]
NoChannel == 0 - 1

\* The drum channel taken as the 10 of the one-based MIDI channel numbers.
IsDrums_Ten(ch) == ch = 10

IsDrums(ch) == ch = 9

\* The pitch wheel with its two data bytes in the wrong order.
PitchWheel_Swapped(event) == BitOr(Shl(p1(event), 7), p2(event))

PitchWheel(event) == BitOr(Shl(p2(event), 7), p1(event))

IsVolumeSysex(event) == event.data_size = 8 /\ SignatureMatches(event)

\* The volume with bytes 5 and 6 in the wrong order.
VolumeNumerator_Swapped(event) ==
    BitOr(Shl(BitAnd(Byte(event, 5), 127), 7), BitAnd(Byte(event, 6), 127))

VolumeNumerator(event) ==
    BitOr(Shl(BitAnd(Byte(event, 6), 127), 7), BitAnd(Byte(event, 5), 127))

\* The switch with the break of the note-on case missing: a note-on falls
\* through into the note-off case.
DispatchCalls_Fallthrough(event) ==
    LET kind == StatusKind(event)
        ch == channel(event)
    IN  CASE kind = TSF_MIDI_PROGRAM_CHANGE ->
               <<Call("tsf_channel_set_presetnumber", ch, p1(event),
                      IF IsDrums(ch) THEN 1 ELSE 0)>>
          [] kind = TSF_MIDI_NOTE_ON ->
               <<Call("tsf_channel_note_on", ch, p1(event), p2(event)),
                 Call("tsf_channel_note_off", ch, p1(event), 0)>>
          [] kind = TSF_MIDI_NOTE_OFF ->
               <<Call("tsf_channel_note_off", ch, p1(event), 0)>>
          [] kind = TSF_MIDI_PITCH_BEND ->
               <<Call("tsf_channel_set_pitchwheel", ch, PitchWheel(event), 0)>>
          [] kind = TSF_MIDI_CONTROL_CHANGE ->
               <<Call("tsf_channel_midi_control", ch, p1(event), p2(event))>>
          [] kind = TSF_MIDI_SYSEX ->
               IF IsVolumeSysex(event)
               THEN <<Call("tsf_set_volume", NoChannel, VolumeNumerator(event), 0)>>
               ELSE <<>>
          [] OTHER -> <<>>

\* The switch of tsf_midi_write: the synth-engine calls it makes for an event
\* of at least two bytes, in order.
DispatchCalls(event) ==
    LET kind == StatusKind(event)
        ch == channel(event)
    IN  CASE kind = TSF_MIDI_PROGRAM_CHANGE ->
               <<Call("tsf_channel_set_presetnumber", ch, p1(event),
                      IF IsDrums(ch) THEN 1 ELSE 0)>>
          [] kind = TSF_MIDI_NOTE_ON ->
               <<Call("tsf_channel_note_on", ch, p1(event), p2(event))>>
          [] kind = TSF_MIDI_NOTE_OFF ->
               <<Call("tsf_channel_note_off", ch, p1(event), 0)>>
          [] kind = TSF_MIDI_PITCH_BEND ->
               <<Call("tsf_channel_set_pitchwheel", ch, PitchWheel(event), 0)>>
          [] kind = TSF_MIDI_CONTROL_CHANGE ->
               <<Call("tsf_channel_midi_control", ch, p1(event), p2(event))>>
          [] kind = TSF_MIDI_SYSEX ->
               IF IsVolumeSysex(event)
               THEN <<Call("tsf_set_volume", NoChannel, VolumeNumerator(event), 0)>>
               ELSE <<>>
          [] OTHER -> <<>>

\* ------------------------------------------------------- the synth engine

\* The part of a tsf instance the driver's calls set directly: each channel's
\* preset (number, drums flag) and the master volume, as the numerator of
\* n / 16383.  Voices, pitch wheels and controllers live in the engine's own
\* tables; the calls that reach them are kept in the caller's call log.
Channels == 0..15
FreshSynth ==
    [open |-> TRUE,
     preset |-> [c \in Channels |-> [number |-> 0, drums |-> 0]],
     volume |-> 16383]
ClosedSynth == [FreshSynth EXCEPT !.open = FALSE]

EngineApply(s, c) ==
    CASE c.fn = "tsf_channel_set_presetnumber" ->
           [s EXCEPT !.preset[c.channel] = [number |-> c.a, drums |-> c.b]]
      [] c.fn = "tsf_set_volume" -> [s EXCEPT !.volume = c.a]
      [] OTHER -> s

RECURSIVE EngineApplyAll(_, _)
EngineApplyAll(s, cs) ==
    IF cs = <<>> THEN s ELSE EngineApplyAll(EngineApply(s, Head(cs)), Tail(cs))

\* ------------------------------------------------------------------- state

Handles == 1..MaxInits

VARIABLES
    heap,          \* the tsf_midi_t blocks: state, d->instance, d->synth_lock
    handle,        \* the pointer the host holds: what tsf_midi_init last returned
    released,      \* of the host's handle: times its instance was closed, its lock freed, its memory freed
    synth,         \* the synth instance of the host's handle
    slock,         \* the slock_t objects: "none", "free", held by a thread, "destroyed"
    voices,        \* the contexts audio_mixer_play_synth registered with tsf_synth
    mixer_active,  \* audio_driver_mixer_set_active was called
    ctl,           \* the control thread: its position, the operation it runs and its locals
    rnd,           \* the audio thread: its position in tsf_synth and the context it got
    crashed        \* the process died

vars == <<heap, handle, released, synth, slock, voices, mixer_active, ctl, rnd, crashed>>

NoEvent == MkEvent(<<>>)

\* The control thread between two operations: the operation that returned, its
\* handle argument and its result (ret of tsf_midi_write, ret_d of tsf_midi_init).
CtlIdle(op, d, ret, ret_d) ==
    [pc |-> "idle", op |-> op, d |-> d, event |-> NoEvent, calls |-> <<>>,
     ret |-> ret, ret_d |-> ret_d]

\* The control thread inside an operation; calls are the synth-engine calls the
\* operation has made so far.
CtlAt(pc, op, d, event) ==
    [pc |-> pc, op |-> op, d |-> d, event |-> event, calls |-> <<>>,
     ret |-> FALSE, ret_d |-> NULL]

NoneReleased == [instance |-> 0, lock |-> 0, mem |-> 0]

Init ==
    /\ heap = [h \in Handles |-> [st |-> "unalloc", instance |-> NULL, synth_lock |-> NULL]]
    /\ handle = NULL
    /\ released = NoneReleased
    /\ synth = ClosedSynth
    /\ slock = [h \in Handles |-> "none"]
    /\ voices = {}
    /\ mixer_active = FALSE
    /\ ctl = CtlIdle("none", NULL, FALSE, NULL)
    /\ rnd = [pc |-> "idle", d |-> NULL]
    /\ crashed = FALSE

Live(h) == h # NULL /\ heap[h].st = "live"
Active == \E h \in Handles : Live(h)

\* ------------------------------------------------------------ the lock

\* slock_lock: waits until the lock is free and takes it; a NULL lock is left alone.
slock_lock(l, t) ==
    IF l = NULL THEN UNCHANGED slock
    ELSE slock[l] = "free" /\ slock' = [slock EXCEPT ![l] = t]

\* slock_unlock
slock_unlock(l) ==
    IF l = NULL THEN UNCHANGED slock
    ELSE slock' = [slock EXCEPT ![l] = "free"]

\* The lock macro as it is without HAVE_THREADS: empty.
TSF_MIDI_SYNTH_LOCK_Empty(d, t) == UNCHANGED slock

TSF_MIDI_SYNTH_LOCK(d, t) ==
    IF HAVE_THREADS THEN slock_lock(heap[d].synth_lock, t) ELSE UNCHANGED slock

TSF_MIDI_SYNTH_UNLOCK(d) ==
    IF HAVE_THREADS THEN slock_unlock(heap[d].synth_lock) ELSE UNCHANGED slock

\* ------------------------------------------------------- tsf_midi_init

\* The host initialises the driver only while it has none (Uninitialized ->
\* Active), and calloc hands out a block not handed out before.
Allocated == {h \in Handles : heap[h].st # "unalloc"}
NewHandle == CHOOSE h \in Handles \ Allocated : \A g \in Handles \ Allocated : h <= g

\* tsf_midi_init without its check of output.
OutputMissing_Never(output) == FALSE

OutputMissing(output) == output = NULL
LoadFailed(load_ok) == ~load_ok

\* Lines 89-101: the two early returns, then the instance is loaded, its output
\* set, the handle allocated zeroed and its instance stored.  load_ok is
\* whether tsf_load_filename finds a valid GM.SF2.  The host keeps what the
\* call returns.  calloc and, at line 103, slock_new are taken to succeed: the
\* code does not test what they return.
tsf_midi_init(output, load_ok) ==
    /\ ~crashed
    /\ ctl.pc = "idle"
    /\ ~Active
    /\ Handles \ Allocated # {}
    /\ IF OutputMissing(output) \/ LoadFailed(load_ok)
       THEN /\ ctl' = CtlIdle("init", NULL, FALSE, NULL)
            /\ handle' = NULL
            /\ UNCHANGED <<heap, released, synth, slock, voices, mixer_active>>
       ELSE /\ heap' = [heap EXCEPT ![NewHandle] =
                           [st |-> "live", instance |-> NewHandle, synth_lock |-> NULL]]
            /\ synth' = FreshSynth
            /\ released' = NoneReleased
            /\ ctl' = CtlAt("init_lock", "init", NewHandle, NoEvent)
            /\ UNCHANGED <<handle, slock, voices, mixer_active>>
    /\ UNCHANGED <<rnd, crashed>>

\* Line 103: d->synth_lock = slock_new()
tsf_midi_init_lock ==
    /\ ~crashed
    /\ ctl.pc = "init_lock"
    /\ IF HAVE_THREADS
       THEN /\ heap' = [heap EXCEPT ![ctl.d].synth_lock = ctl.d]
            /\ slock' = [slock EXCEPT ![ctl.d] = "free"]
       ELSE UNCHANGED <<heap, slock>>
    /\ ctl' = [ctl EXCEPT !.pc = "init_play"]
    /\ UNCHANGED <<handle, released, synth, voices, mixer_active, rnd, crashed>>

\* Line 106: audio_mixer_play_synth(tsf_synth, d)
tsf_midi_init_play ==
    /\ ~crashed
    /\ ctl.pc = "init_play"
    /\ voices' = voices \cup {ctl.d}
    /\ ctl' = [ctl EXCEPT !.pc = "init_active"]
    /\ UNCHANGED <<heap, handle, released, synth, slock, mixer_active, rnd, crashed>>

\* Lines 107-109: audio_driver_mixer_set_active(); return d
tsf_midi_init_active ==
    /\ ~crashed
    /\ ctl.pc = "init_active"
    /\ mixer_active' = TRUE
    /\ handle' = ctl.d
    /\ ctl' = CtlIdle("init", ctl.d, FALSE, ctl.d)
    /\ UNCHANGED <<heap, released, synth, slock, voices, rnd, crashed>>

\* ------------------------------------------------------- tsf_midi_write

\* Lines 143-151: the length check.  The host writes only to the handle of an
\* Active driver.
tsf_midi_write(d, event) ==
    /\ ~crashed
    /\ ctl.pc = "idle"
    /\ d = handle
    /\ Live(d)
    /\ ctl' = IF TooShort(event)
              THEN CtlIdle("write", d, FALSE, NULL)
              ELSE CtlAt("w_lock", "write", d, event)
    /\ UNCHANGED <<heap, handle, released, synth, slock, voices, mixer_active, rnd, crashed>>

\* Line 153: TSF_MIDI_SYNTH_LOCK()
tsf_midi_write_lock ==
    /\ ~crashed
    /\ ctl.pc = "w_lock"
    /\ TSF_MIDI_SYNTH_LOCK(ctl.d, "control")
    /\ ctl' = [ctl EXCEPT !.pc = "w_switch"]
    /\ UNCHANGED <<heap, handle, released, synth, voices, mixer_active, rnd, crashed>>

\* Lines 154-175: the switch, with the synth-engine call it makes
tsf_midi_write_switch ==
    /\ ~crashed
    /\ ctl.pc = "w_switch"
    /\ synth' = EngineApplyAll(synth, DispatchCalls(ctl.event))
    /\ ctl' = [ctl EXCEPT !.pc = "w_unlock", !.calls = DispatchCalls(ctl.event)]
    /\ UNCHANGED <<heap, handle, released, slock, voices, mixer_active, rnd, crashed>>

\* Lines 176-177: TSF_MIDI_SYNTH_UNLOCK(); return true
tsf_midi_write_unlock ==
    /\ ~crashed
    /\ ctl.pc = "w_unlock"
    /\ TSF_MIDI_SYNTH_UNLOCK(ctl.d)
    /\ ctl' = CtlIdle("write", ctl.d, TRUE, NULL)
    /\ UNCHANGED <<heap, handle, released, synth, voices, mixer_active, rnd, crashed>>

\* ------------------------------------------------------------ tsf_synth

\* The mixer pulls every callback registered with it, at its own cadence, on
\* the audio thread; nothing in the driver takes a callback back.
MixerPulls == voices

\* Line 76: the mixer calls tsf_synth with a registered context.  A context
\* whose handle was freed is a dangling pointer: the thread runs on freed memory.
tsf_synth(d) ==
    /\ ~crashed
    /\ rnd.pc = "idle"
    /\ d \in MixerPulls
    /\ rnd' = [pc |-> IF Live(d) THEN "r_lock" ELSE "r_freed", d |-> d]
    /\ UNCHANGED <<heap, handle, released, synth, slock, voices, mixer_active, ctl, crashed>>

\* Line 78: TSF_MIDI_SYNTH_LOCK()
tsf_synth_lock ==
    /\ ~crashed
    /\ rnd.pc = "r_lock"
    /\ TSF_MIDI_SYNTH_LOCK(rnd.d, "audio")
    /\ rnd' = [rnd EXCEPT !.pc = "r_render"]
    /\ UNCHANGED <<heap, handle, released, synth, voices, mixer_active, ctl, crashed>>

\* Line 79: tsf_render_float(d->instance, buffer, num_frames, 1): it reads the
\* presets and the volume and changes neither.
tsf_synth_render ==
    /\ ~crashed
    /\ rnd.pc = "r_render"
    /\ rnd' = [rnd EXCEPT !.pc = "r_unlock"]
    /\ UNCHANGED <<heap, handle, released, synth, slock, voices, mixer_active, ctl, crashed>>

\* Lines 80-81: TSF_MIDI_SYNTH_UNLOCK(); return
tsf_synth_unlock ==
    /\ ~crashed
    /\ rnd.pc = "r_unlock"
    /\ TSF_MIDI_SYNTH_UNLOCK(rnd.d)
    /\ rnd' = [pc |-> "idle", d |-> NULL]
    /\ UNCHANGED <<heap, handle, released, synth, voices, mixer_active, ctl, crashed>>

\* Lines 78-80 on a freed handle: a destroyed lock is locked and a closed
\* instance rendered from.  The call may return, crash the process, or never
\* return (no step).
tsf_synth_freed ==
    /\ ~crashed
    /\ rnd.pc = "r_freed"
    /\ \/ rnd' = [pc |-> "idle", d |-> NULL] /\ UNCHANGED crashed
       \/ crashed' = TRUE /\ UNCHANGED rnd
    /\ UNCHANGED <<heap, handle, released, synth, slock, voices, mixer_active, ctl>>

\* ------------------------------------------------------- tsf_midi_free

Release(r, inst, lock, mem) ==
    [instance |-> r.instance + inst, lock |-> r.lock + lock, mem |-> r.mem + mem]

\* Lines 116-123 on a live handle: tsf_close, slock_free, free.
FreeLive(d) ==
    /\ released' = Release(released,
                           IF heap[d].instance # NULL THEN 1 ELSE 0,
                           IF HAVE_THREADS /\ heap[d].synth_lock # NULL THEN 1 ELSE 0,
                           1)
    /\ heap' = [heap EXCEPT ![d].st = "freed"]
    /\ slock' = IF HAVE_THREADS /\ heap[d].synth_lock # NULL
                THEN [slock EXCEPT ![heap[d].synth_lock] = "destroyed"]
                ELSE slock
    /\ synth' = ClosedSynth
    /\ UNCHANGED crashed

\* Lines 116-123 on a handle already freed: d is not NULL, so the body runs and
\* reads d->instance and d->synth_lock from freed memory.  The reads give the
\* old pointers (everything is released again), or zeroes (tsf_close and
\* slock_free return at once on NULL, free(d) still runs), or the process dies.
FreeDangling(d) ==
    \/ /\ released' = Release(released, 1, IF HAVE_THREADS THEN 1 ELSE 0, 1)
       /\ UNCHANGED <<heap, slock, synth, crashed>>
    \/ /\ released' = Release(released, 0, 0, 1)
       /\ UNCHANGED <<heap, slock, synth, crashed>>
    \/ /\ crashed' = TRUE
       /\ UNCHANGED <<heap, released, slock, synth>>

\* The null check of line 116.
HasHandle(d) == d # NULL

\* Shutdown does not run while tsf_synth does: the host's driver lifecycle
\* keeps the two apart.  d is NULL or the pointer the host holds, which the
\* driver leaves as it is when it frees the block.
tsf_midi_free(d) ==
    /\ ~crashed
    /\ ctl.pc = "idle"
    /\ rnd.pc = "idle"
    /\ d \in {NULL, handle}
    /\ IF ~HasHandle(d)
       THEN UNCHANGED <<heap, released, slock, synth, crashed>>
       ELSE IF Live(d)
            THEN FreeLive(d)
            ELSE released.mem < MaxFreeCalls /\ FreeDangling(d)
    /\ ctl' = CtlIdle("free", d, FALSE, NULL)
    /\ UNCHANGED <<handle, voices, mixer_active, rnd>>

\* ----------------------------------------------------------- specification

Outputs == {NULL, 1}

\* The events of the specification with both threads: every too-short event,
\* and for every status byte one two-byte and one three-byte event, plus the
\* volume message and two near misses of it.
CoreEvents ==
    ShortEvents
    \cup {MkEvent(<<s, 193>>) : s \in StatusBytes}
    \cup {MkEvent(<<s, 127, 127>>) : s \in StatusBytes}
    \cup {MkEvent(<<240>> \o VolumeSignature \o <<127, 127, 247>>),
          MkEvent(<<240>> \o VolumeSignature \o <<0, 193, 247>>),
          MkEvent(<<240>> \o <<127, 127, 5, 1>> \o <<127, 127, 247>>),
          MkEvent(<<240>> \o VolumeSignature \o <<127, 247>>)}

ControlNext(E) ==
    \/ \E output \in Outputs, load_ok \in BOOLEAN : tsf_midi_init(output, load_ok)
    \/ tsf_midi_init_lock
    \/ tsf_midi_init_play
    \/ tsf_midi_init_active
    \/ \E d \in Handles, event \in E : tsf_midi_write(d, event)
    \/ tsf_midi_write_lock
    \/ tsf_midi_write_switch
    \/ tsf_midi_write_unlock
    \/ \E d \in {NULL} \cup Handles : tsf_midi_free(d)

AudioNext ==
    \/ \E d \in Handles : tsf_synth(d)
    \/ tsf_synth_lock
    \/ tsf_synth_render
    \/ tsf_synth_unlock
    \/ tsf_synth_freed

\* The driver with its two threads.
Next == ControlNext(CoreEvents) \/ AudioNext

Spec == Init /\ [][Next]_vars

\* The control thread alone, over every event of Events: what tsf_midi_write
\* makes of an event does not depend on the audio thread.
DataNext == ControlNext(Events)

DataSpec == Init /\ [][DataNext]_vars

\* The schedulers of both threads are fair and so is the lock: a thread that
\* can run its next line runs it, and a thread waiting for a lock that comes
\* free again and again gets it.
Fairness ==
    /\ SF_vars(tsf_midi_write_lock)
    /\ WF_vars(tsf_midi_write_switch)
    /\ WF_vars(tsf_midi_write_unlock)
    /\ SF_vars(tsf_synth_lock)
    /\ WF_vars(tsf_synth_render)
    /\ WF_vars(tsf_synth_unlock)

FairSpec == Init /\ [][Next]_vars /\ Fairness

\* ------------------------------------------------------------------ claims

\* What the claims say of an event, in arithmetic on its bytes.
StatusNibble(event) == event.data[1] \div 16
ChannelOf(event) == event.data[1] % 16
Data1(event) == event.data[2] % 128
Data2(event) == IF Len(event.data) >= 3 THEN event.data[3] % 128 ELSE 0
InWrite == ctl.pc \in {"w_lock", "w_switch", "w_unlock"}
InRender == rnd.pc \in {"r_lock", "r_render", "r_unlock"}
Holds(d, t) == heap[d].synth_lock # NULL /\ slock[heap[d].synth_lock] = t

\* C1: on a live handle, a thread that is at a synth-engine call (the switch of
\* tsf_midi_write, tsf_render_float of tsf_synth) holds the handle's
\* synth_lock, and the control thread and the audio thread are never both at a
\* synth-engine call on the same handle.
C1_SynthCallsSerialized ==
    /\ ctl.pc = "w_switch" => Live(ctl.d) /\ Holds(ctl.d, "control")
    /\ rnd.pc = "r_render" => Live(rnd.d) /\ Holds(rnd.d, "audio")
    /\ ~(ctl.pc = "w_switch" /\ rnd.pc = "r_render" /\ ctl.d = rnd.d)

\* The control thread is in the switch while the audio thread waits for the lock
\* of the same handle.
C1_Witness ==
    ctl.pc = "w_switch" /\ rnd.pc = "r_lock" /\ rnd.d = ctl.d

\* C2: tsf_midi_free called with NULL, or with a handle it has already freed,
\* releases nothing: not the synth instance, not the lock, not the memory.
C2_SecondFreeReleasesNothing ==
    [][\A d \in {NULL} \cup Handles :
          (tsf_midi_free(d) /\ ~Live(d)) => UNCHANGED released]_vars

\* C3: tsf_midi_write of an event of fewer than two bytes returns false in
\* that one step, with no synth-engine call made, the lock not touched and the
\* synth unchanged.
C3_ShortEventRejected ==
    [][\A d \in Handles, event \in Events :
          (event.data_size < 2 /\ tsf_midi_write(d, event)) =>
              /\ ctl'.pc = "idle" /\ ctl'.op = "write"
              /\ ctl'.ret = FALSE
              /\ ctl'.calls = <<>>
              /\ UNCHANGED <<synth, slock>>]_vars

\* A write was rejected while the audio thread was rendering.
C3_Witness ==
    ctl.pc = "idle" /\ ctl.op = "write" /\ ctl.ret = FALSE /\ rnd.pc = "r_render"

\* The synth-engine call the claim C4 allows for a status nibble; "" for none.
C4_CallFor(nibble) ==
    CASE nibble = 12 -> "tsf_channel_set_presetnumber"
      [] nibble = 9 -> "tsf_channel_note_on"
      [] nibble = 8 -> "tsf_channel_note_off"
      [] nibble = 14 -> "tsf_channel_set_pitchwheel"
      [] nibble = 11 -> "tsf_channel_midi_control"
      [] OTHER -> ""

\* C4: tsf_midi_write of an event of at least two bytes never returns at the
\* length check; it returns true, and by then has made at most one synth-engine call, which the
\* status nibble alone chooses: the call of C4_CallFor for 0x8, 0x9, 0xB, 0xC
\* and 0xE, at most a tsf_set_volume for 0xF, and none for any other nibble.
C4_AcceptedOneCall ==
    [][/\ (ctl.pc = "idle" /\ ctl'.pc = "idle" /\ ctl'.op = "write") =>
             \A event \in Events : event.data_size >= 2 => ~tsf_midi_write(handle, event)
       /\ (ctl.pc = "w_unlock" /\ ctl'.pc # "w_unlock") =>
             /\ ctl'.pc = "idle" /\ ctl'.op = "write" /\ ctl'.ret = TRUE
             /\ Len(ctl.calls) <= 1
             /\ LET nibble == StatusNibble(ctl.event)
                IN  IF nibble = 15
                    THEN \A i \in 1..Len(ctl.calls) : ctl.calls[i].fn = "tsf_set_volume"
                    ELSE IF C4_CallFor(nibble) = ""
                    THEN ctl.calls = <<>>
                    ELSE Len(ctl.calls) = 1 /\ ctl.calls[1].fn = C4_CallFor(nibble)]_vars

\* A key-pressure event (0xA0) is about to return, with no call made.
C4_Witness ==
    ctl.pc = "w_unlock" /\ StatusNibble(ctl.event) = 10 /\ ctl.calls = <<>>

\* C5: tsf_midi_init with no output, or with a sound bank that does not load,
\* returns NULL in that step and leaves heap, locks, mixer callbacks, the
\* mixer's active state and the synth as they were; a callback is registered
\* only for a handle whose instance and lock exist; and the handle it returns
\* is live, has both, and is registered with an active mixer.
C5_InitFailsCleanly ==
    [][/\ \A output \in Outputs, load_ok \in BOOLEAN :
             ((output = NULL \/ ~load_ok) /\ tsf_midi_init(output, load_ok)) =>
                 /\ ctl'.pc = "idle" /\ ctl'.ret_d = NULL
                 /\ UNCHANGED <<heap, slock, voices, mixer_active, synth>>
       /\ \A h \in Handles :
             (h \notin voices /\ h \in voices') =>
                 /\ heap[h].instance # NULL
                 /\ heap[h].synth_lock # NULL /\ slock[heap[h].synth_lock] = "free"
       /\ (ctl.pc = "init_active" /\ ctl'.pc = "idle") =>
             /\ ctl'.ret_d # NULL /\ Live(ctl'.ret_d)
             /\ heap'[ctl'.ret_d].instance # NULL /\ heap'[ctl'.ret_d].synth_lock # NULL
             /\ ctl'.ret_d \in voices' /\ mixer_active']_vars

\* A first tsf_midi_init has failed: no handle, nothing allocated, nothing
\* registered, the mixer not active.
C5_Witness ==
    /\ ctl.pc = "idle" /\ ctl.op = "init" /\ ctl.ret_d = NULL
    /\ Allocated = {} /\ voices = {} /\ ~mixer_active

\* C6: a tsf_midi_write and a tsf_synth that have started on a live handle
\* return, and whenever neither is in progress the lock of the live handle is free.
C6_OperationsComplete ==
    /\ InWrite ~> ctl.pc = "idle"
    /\ InRender ~> rnd.pc = "idle"
    /\ [](\A h \in Handles :
            (Live(h) /\ heap[h].synth_lock # NULL /\ ~InWrite /\ ~InRender) =>
                slock[heap[h].synth_lock] = "free")

\* C7: for a system exclusive event of at least two bytes the switch calls
\* tsf_set_volume, once, exactly when the event has 8 bytes and bytes 1..4 are
\* 7F 7F 04 01; the volume is then ((byte6 mod 128) * 128 + byte5 mod 128) / 16383,
\* a numerator in 0..16383 that is 16383 for byte5 = byte6 = 0x7F; otherwise
\* the switch makes no call and leaves the synth as it is.
C7_SysexVolume ==
    [][(ctl.pc = "w_switch" /\ ctl'.pc # "w_switch" /\ StatusNibble(ctl.event) = 15) =>
          LET data == ctl.event.data
              n == ((data[7] % 128) * 128) + (data[6] % 128)
          IN  IF Len(data) = 8 /\ SubSeq(data, 2, 5) = <<127, 127, 4, 1>>
              THEN /\ ctl'.calls = <<Call("tsf_set_volume", NoChannel, n, 0)>>
                   /\ synth' = [synth EXCEPT !.volume = n]
                   /\ n \in 0..16383
                   /\ (data[6] = 127 /\ data[7] = 127) => synth'.volume = 16383
              ELSE ctl'.calls = <<>> /\ synth' = synth]_vars

\* The volume message with byte5 = 0xC1, byte6 = 0x7F has set the volume to
\* (127 * 128 + 65) / 16383.
C7_Witness ==
    /\ ctl.pc = "w_unlock" /\ StatusNibble(ctl.event) = 15
    /\ Len(ctl.calls) = 1 /\ synth.volume = 16321

\* C8: for a pitch bend event the switch calls tsf_channel_set_pitchwheel once,
\* on the event's channel, with (data2 mod 128) * 128 + data1 mod 128, data2
\* being 0 for a two-byte event; the value is in 0..16383 and is 16383 for
\* data1 = data2 = 0x7F.
C8_PitchWheelValue ==
    (ctl.pc = "w_unlock" /\ StatusNibble(ctl.event) = 14) =>
        LET v == (Data2(ctl.event) * 128) + Data1(ctl.event)
        IN  /\ ctl.calls = <<Call("tsf_channel_set_pitchwheel", ChannelOf(ctl.event), v, 0)>>
            /\ v \in 0..16383
            /\ (ctl.event.data_size >= 3 /\ ctl.event.data[2] = 127
                    /\ ctl.event.data[3] = 127) => ctl.calls[1].a = 16383
            /\ ctl.event.data_size = 2 => ctl.calls[1].a = ctl.event.data[2] % 128

\* A pitch bend with data1 = 0xC1, data2 = 0x7F was passed on as 127 * 128 + 65.
C8_Witness ==
    /\ ctl.pc = "w_unlock" /\ StatusNibble(ctl.event) = 14
    /\ Len(ctl.calls) = 1 /\ ctl.calls[1].a = 16321

\* C9: for a program change event the switch sets the preset of the event's
\* channel to data1 mod 128, with the drums flag set exactly on channel 9, by
\* one tsf_channel_set_presetnumber call, and leaves every other channel's
\* preset and the rest of the synth as they were.
C9_ProgramChange ==
    [][(ctl.pc = "w_switch" /\ ctl'.pc # "w_switch" /\ StatusNibble(ctl.event) = 12) =>
          LET ch == ChannelOf(ctl.event)
              flag == IF ch = 9 THEN 1 ELSE 0
          IN  /\ ctl'.calls = <<Call("tsf_channel_set_presetnumber", ch, Data1(ctl.event), flag)>>
              /\ synth' = [synth EXCEPT !.preset[ch] =
                              [number |-> Data1(ctl.event), drums |-> flag]]]_vars

\* Channel 9 has just got preset 127 with the drums flag, channel 0 keeping the
\* preset 65 it was given before.
C9_Witness ==
    /\ ctl.pc = "w_unlock" /\ StatusNibble(ctl.event) = 12 /\ ChannelOf(ctl.event) = 9
    /\ synth.preset[9] = [number |-> 127, drums |-> 1]
    /\ synth.preset[0] = [number |-> 65, drums |-> 0]

\* C10: tsf_synth runs only with a live handle: once tsf_midi_free has freed a
\* handle, the mixer does not call the render callback with it again.
C10_RenderOnlyWhileActive ==
    rnd.pc # "idle" => Live(rnd.d)

====
